---- MODULE Spec2Model ----
(***************************************************************************)
(* Model of finance_tracker.services.simulation_service: the period-       *)
(* stepped projection engine SimulationService.run and its numeric         *)
(* helpers.                                                                *)
(*                                                                         *)
(* Numbers.  The source computes with decimal.Decimal.  Here an amount of  *)
(* money is an integer number of quanta, and a dimensionless Decimal (a    *)
(* rate, the period fraction dt, the inflation index, the household        *)
(* parts) is a fixed-point number with Scale units per 1.  A product or a  *)
(* quotient is rounded to the nearest quantum (MulR, DivR), as Decimal     *)
(* rounds to its context precision; sums and differences are exact.        *)
(* As with Decimal, 1/4 and 1/1 are exact and 1/12 is not.                 *)
(*                                                                         *)
(* Optional[X] is a sequence of length 0 (None) or 1.  A dict keyed by     *)
(* product name is a function on the set of names.                         *)
(***************************************************************************)
EXTENDS Integers, Sequences, FiniteSets, TLC

Scale == 1000

\* Bounds of the explored inputs.
MaxYears == 3
MaxSteps == 12
MaxProducts == 3

----------------------------------------------------------------------------
(* Generic helpers *)

None == << >>
Some(x) == << x >>
IsNone(o) == o = << >>
Get(o) == o[1]

Min2(a, b) == IF a <= b THEN a ELSE b
Max2(a, b) == IF a >= b THEN a ELSE b
Min3(a, b, c) == Min2(a, Min2(b, c))

RECURSIVE SumSet(_, _)
SumSet(f, S) ==
    IF S = {} THEN 0
    ELSE LET k == CHOOSE x \in S : TRUE IN f[k] + SumSet(f, S \ {k})

\* sum(d.values()) of a dict
SumValues(f) == SumSet(f, DOMAIN f)

Range(s) == { s[k] : k \in DOMAIN s }

----------------------------------------------------------------------------
(* Decimal arithmetic *)

\* a / b rounded to the nearest integer, for b > 0
RoundDiv(a, b) == (2 * a + b) \div (2 * b)

\* money * ratio, ratio * ratio
MulR(m, r) == RoundDiv(m * r, Scale)
\* money / ratio, ratio / ratio, for a positive divisor
DivR(m, r) == RoundDiv(m * Scale, r)

RECURSIVE PowInt(_, _)
\* base ** k for a whole k >= 0
PowInt(base, k) == IF k = 0 THEN Scale ELSE MulR(PowInt(base, k - 1), base)

RECURSIVE Bisect(_, _, _, _)
\* the largest f in lo..hi with f ** n <= x, given lo ** n <= x
Bisect(x, n, lo, hi) ==
    IF lo >= hi THEN lo
    ELSE LET mid == (lo + hi + 1) \div 2
         IN  IF PowInt(mid, n) <= x THEN Bisect(x, n, mid, hi)
                                    ELSE Bisect(x, n, lo, mid - 1)

\* base ** (1/n)
Root(base, n) ==
    IF n = 1 THEN base
    ELSE IF base >= Scale THEN Bisect(base, n, Scale, base)
    ELSE Bisect(base, n, base, Scale)

\* base ** e, Decimal.__pow__: e is a whole number of years or the period
\* fraction dt = 1/n
Pow(base, e) ==
    IF e % Scale = 0 THEN PowInt(base, e \div Scale)
    ELSE Root(base, Scale \div e)

----------------------------------------------------------------------------
(* Module-level functions *)

steps_per_year(period) ==
    IF period = "monthly" THEN 12
    ELSE IF period = "quarterly" THEN 4
    ELSE 1

periodic_rateOfYear(annual_rate, dt) == annual_rate

periodic_rate(annual_rate, dt_years) == Pow(Scale + annual_rate, dt_years) - Scale

RECURSIVE TaxLoop(_, _, _, _, _)
\* the loop over tax_cfg.brackets, from bracket k on
TaxLoop(brackets, k, taxable_per_part, t, prev) ==
    IF k > Len(brackets) THEN t
    ELSE LET b == brackets[k]
         IN  IF IsNone(b.up_to)
             THEN t + MulR(taxable_per_part - prev, b.rate)
             ELSE LET upper == Get(b.up_to)
                      band == Min2(taxable_per_part, upper) - prev
                      t2 == IF band > 0 THEN t + MulR(band, b.rate) ELSE t
                  IN  IF taxable_per_part <= upper THEN t2
                      ELSE TaxLoop(brackets, k + 1, taxable_per_part, t2, upper)

compute_progressive_taxPerPart(taxable, tax_cfg) ==
    IF taxable <= 0 THEN 0
    ELSE Max2(0, TaxLoop(tax_cfg.brackets, 1,
                         DivR(taxable, Max2(tax_cfg.household_parts, Scale)),
                         0, 0))

compute_progressive_tax(taxable, tax_cfg) ==
    IF taxable <= 0 THEN 0
    ELSE LET parts == Max2(tax_cfg.household_parts, Scale)
             taxable_per_part == DivR(taxable, parts)
             t == TaxLoop(tax_cfg.brackets, 1, taxable_per_part, 0, 0)
         IN  MulR(Max2(t, 0), parts)

compute_per_cap_from_income_prev(income_prev, per_cap) ==
    LET cap0 == MulR(income_prev, per_cap.rate_of_income_prev_year)
        cap1 == Max2(cap0, per_cap.annual_min)
        cap2 == IF IsNone(per_cap.annual_max) THEN cap1
                ELSE Min2(cap1, Get(per_cap.annual_max))
    IN  Max2(cap2, 0)

distribute_integer_over_periodsBackLoaded(total, n) ==
    IF n <= 0 THEN << >>
    ELSE IF total <= 0 THEN [k \in 1..n |-> 0]
    ELSE [k \in 1..n |-> (total \div n) + (IF k > n - (total % n) THEN 1 ELSE 0)]

distribute_integer_over_periods(total, n) ==
    IF n <= 0 THEN << >>
    ELSE IF total <= 0 THEN [k \in 1..n |-> 0]
    ELSE LET base == total \div n
             rem == total % n
         IN  [k \in 1..n |-> base + (IF k - 1 < rem THEN 1 ELSE 0)]

payments_per_year(freq) ==
    IF freq = "monthly" THEN 12
    ELSE IF freq = "quarterly" THEN 4
    ELSE IF freq = "semiannual" THEN 2
    ELSE 1

should_pay_dividendAtIntervalStart(period, step_in_year, freq) ==
    step_in_year
        % (steps_per_year(period)
             \div Min2(steps_per_year(period), payments_per_year(freq))) = 0

should_pay_dividend(period, step_in_year, freq) ==
    IF period = "yearly" THEN TRUE
    ELSE IF period = "quarterly"
    THEN IF freq \in {"monthly", "quarterly"} THEN TRUE
         ELSE IF freq = "semiannual" THEN step_in_year \in {1, 3}
         ELSE step_in_year = 3
    ELSE IF freq = "monthly" THEN TRUE
    ELSE IF freq = "quarterly" THEN step_in_year \in {2, 5, 8, 11}
    ELSE IF freq = "semiannual" THEN step_in_year \in {5, 11}
    ELSE step_in_year = 11

----------------------------------------------------------------------------
(* Configuration dataclasses, with their defaults *)

FCPIConfig ==
    [tax_reduction_rate |-> 180, annual_eligible_cap |-> 12000,
     holding_years |-> 8, exit_mode |-> "principal"]

SCPIConfig(part_price, parts_per_year, distribution_annual) ==
    [part_price |-> part_price, parts_per_year |-> parts_per_year,
     distribution_annual |-> distribution_annual, dividends_to_cash |-> TRUE,
     revaluation_annual |-> 0, dividend_frequency |-> "quarterly"]

ProductSimConfig(name, kind) ==
    [name |-> name, kind |-> kind, annual_return |-> 0,
     contribution_per_period |-> 0, contribution_pct_income |-> 0,
     initial_value_eur |-> 0, initial_invested_eur |-> None,
     scpi |-> None, initial_scpi_parts |-> None, fcpi |-> None,
     priority |-> 50]

PERCapConfig == [rate_of_income_prev_year |-> 100, annual_min |-> 0, annual_max |-> None]

----------------------------------------------------------------------------
(* The explored inputs *)

\* The products a caller may hold, in the order of the caller's list.
Catalogue ==
    << [ProductSimConfig("cash", "cash") EXCEPT
            !.initial_value_eur = 1000, !.annual_return = 100],
       [ProductSimConfig("cash2", "cash") EXCEPT !.initial_value_eur = 200],
       [ProductSimConfig("sav", "savings") EXCEPT
            !.annual_return = 50, !.contribution_per_period = 100, !.priority = 10],
       [ProductSimConfig("scpi", "scpi") EXCEPT
            !.scpi = Some([SCPIConfig(200, 5, 40) EXCEPT
                              !.revaluation_annual = 100]),
            !.initial_value_eur = 450, !.priority = 20],
       [ProductSimConfig("scpiR", "scpi") EXCEPT
            !.scpi = Some([SCPIConfig(150, 3, 60) EXCEPT
                              !.dividends_to_cash = FALSE,
                              !.dividend_frequency = "semiannual"]),
            !.initial_scpi_parts = Some(1), !.initial_invested_eur = Some(120)],
       [ProductSimConfig("per", "per") EXCEPT !.contribution_per_period = 150],
       [ProductSimConfig("fcpi", "fcpi") EXCEPT
            !.fcpi = Some([FCPIConfig EXCEPT !.tax_reduction_rate = 200,
                              !.annual_eligible_cap = 150, !.holding_years = 1]),
            !.annual_return = -100, !.contribution_per_period = 100,
            !.initial_value_eur = 20],
       [ProductSimConfig("fcpiF", "fcpi") EXCEPT
            !.fcpi = Some([FCPIConfig EXCEPT !.holding_years = 2,
                              !.exit_mode = "full_value"]),
            !.annual_return = 100, !.contribution_per_period = 80,
            !.initial_value_eur = 50, !.priority = 30],
       [ProductSimConfig("oth", "other") EXCEPT
            !.annual_return = 200, !.contribution_per_period = -100,
            !.contribution_pct_income = 250, !.initial_value_eur = 400,
            !.initial_invested_eur = Some(300)],
       [ProductSimConfig("scpi0", "scpi") EXCEPT
            !.scpi = Some(SCPIConfig(0, 3, 40)),
            !.initial_value_eur = 100, !.priority = 5],
       [ProductSimConfig("hold", "other") EXCEPT
            !.annual_return = 200, !.initial_value_eur = 1000],
       [ProductSimConfig("holdL", "other") EXCEPT
            !.annual_return = -100, !.initial_value_eur = 500] >>

\* The sub-sequence of the catalogue at the indices S, in catalogue order.
RECURSIVE SubSeq2(_, _)
SubSeq2(S, k) ==
    IF k > Len(Catalogue) THEN << >>
    ELSE IF k \in S THEN << Catalogue[k] >> \o SubSeq2(S, k + 1)
    ELSE SubSeq2(S, k + 1)

\* Lists of at most MaxProducts products with unique names, drawn from
\* the catalogue entries at the indices idx; a second cash product only
\* next to the first.
ListsOver(idx) ==
    { SubSeq2(S, 1) : S \in { T \in SUBSET idx :
                                 /\ Cardinality(T) <= MaxProducts
                                 /\ 2 \in T => 1 \in T } }

ProductLists == ListsOver(1..9)

Brackets ==
    << [up_to |-> Some(1000), rate |-> 0],
       [up_to |-> Some(2000), rate |-> 100],
       [up_to |-> None, rate |-> 300] >>

Periods == {"monthly", "quarterly", "yearly"}

Configs ==
    { c \in [ years : 1..MaxYears,
              period : Periods,
              inflation_annual : {20},
              income : [gross_annual_start : {2400},
                        annual_growth : {0, 100},
                        gross_annual_previous : {None, Some(1200)}],
              budget : [annual_living_costs : {1200, 3600},
                        emergency_fund_target : {500},
                        enforce_emergency_fund_first : BOOLEAN],
              tax : [brackets : {Brackets},
                     household_parts : {Scale},
                     standard_deduction_rate : {100},
                     initial_tax_due_annual : {240}],
              per_cap : {PERCapConfig} ] :
        c.years * steps_per_year(c.period) <= MaxSteps }

----------------------------------------------------------------------------
(* State *)

VARIABLES
    cfg,            \* the SimulationConfig the caller holds
    products,       \* the product list the caller passes
    pc,             \* "call", "loop", "returned", "raised"
    i,              \* the loop index of run
    value, invested, scpi_parts, scpi_part_price, fcpi_lots,
    infl_idx, tax_due_by_year, tax_paid_ytd, tax_to_pay_this_year_annual,
    per_contrib_ytd, fcpi_contrib_ytd_by_product, income_annual_by_year,
    rows,
    result,         \* the SimulationResult returned, or the error raised
    history         \* the earlier calls on the service: their list and result

locals == << i, value, invested, scpi_parts, scpi_part_price, fcpi_lots,
             infl_idx, tax_due_by_year, tax_paid_ytd,
             tax_to_pay_this_year_annual, per_contrib_ytd,
             fcpi_contrib_ytd_by_product, income_annual_by_year, rows >>

vars == << cfg, products, pc, locals, result, history >>

Names(ps) == { ps[k].name : k \in DOMAIN ps }

IsScpi(p) == p.kind = "scpi" /\ ~IsNone(p.scpi)
IsFcpi(p) == p.kind = "fcpi" /\ ~IsNone(p.fcpi)

\* [p.name for p in products if p.kind == "cash"]
cash_candidates(ps) == SelectSeq(ps, LAMBDA p : p.kind = "cash")

n_per_year == steps_per_year(cfg.period)
dt_years == DivR(Scale, n_per_year * Scale)
n_stepsOfOneYear == n_per_year
n_steps == cfg.years * n_per_year
cash_name == cash_candidates(products)[1].name

\* The state before the first call, for a given set of inputs.
InitOver(configs, lists) ==
    /\ cfg \in configs
    /\ products \in lists
    /\ pc = "call"
    /\ i = 0
    /\ value = << >> /\ invested = << >> /\ scpi_parts = << >>
    /\ scpi_part_price = << >> /\ fcpi_lots = << >>
    /\ infl_idx = Scale /\ tax_due_by_year = << >> /\ tax_paid_ytd = 0
    /\ tax_to_pay_this_year_annual = 0 /\ per_contrib_ytd = 0
    /\ fcpi_contrib_ytd_by_product = << >> /\ income_annual_by_year = << >>
    /\ rows = << >>
    /\ result = None
    /\ history = << >>

Init == InitOver(Configs, ProductLists)

----------------------------------------------------------------------------
(* Dict helpers *)

\* d[k] = v
DictSet(d, k, v) == [x \in (DOMAIN d) \cup {k} |-> IF x = k THEN v ELSE d[x]]
\* d.get(k, default)
DictGet(d, k, default) == IF k \in DOMAIN d THEN d[k] ELSE default

\* sorted(ps, key=lambda x: x.priority): stable, ties keep the list order
RECURSIVE InsertByPriority(_, _)
InsertByPriority(sorted, p) ==
    IF sorted = << >> THEN << p >>
    ELSE IF sorted[Len(sorted)].priority <= p.priority THEN Append(sorted, p)
    ELSE Append(InsertByPriority(SubSeq(sorted, 1, Len(sorted) - 1), p),
                sorted[Len(sorted)])

SortedByPriorityAsListed(ps) == ps

RECURSIVE SortedByPriority(_)
SortedByPriority(ps) ==
    IF ps = << >> THEN << >>
    ELSE InsertByPriority(SortedByPriority(SubSeq(ps, 1, Len(ps) - 1)), ps[Len(ps)])

----------------------------------------------------------------------------
(* SimulationService.run: entry *)

\* if not cash_candidates
NoCash(ps) == cash_candidates(ps) = << >>

\* if len(cash_candidates) > 1
SeveralCashOffByOne(ps) == Len(cash_candidates(ps)) > 2
SeveralCash(ps) == Len(cash_candidates(ps)) > 1

RaiseNoCash ==
    /\ pc = "call"
    /\ NoCash(products)
    /\ pc' = "raised"
    /\ result' = Some([error |-> "ValueError: il faut au moins un produit de type 'cash'"])
    /\ UNCHANGED << cfg, products, locals, history >>

RaiseSeveralCash ==
    /\ pc = "call"
    /\ ~NoCash(products)
    /\ SeveralCash(products)
    /\ pc' = "raised"
    /\ result' = Some([error |-> "ValueError: plusieurs produits 'cash'"])
    /\ UNCHANGED << cfg, products, locals, history >>

\* scpi_parts[p.name] at construction
InitialParts(p) ==
    LET sc == Get(p.scpi)
        parts0 == IF ~IsNone(p.initial_scpi_parts) THEN Get(p.initial_scpi_parts)
                  ELSE IF sc.part_price > 0
                       THEN p.initial_value_eur \div sc.part_price
                       ELSE 0
    IN  Max2(0, parts0)

InitialValueStale(p) ==
    IF p.name \in DOMAIN value THEN value[p.name]
    ELSE IF IsScpi(p) THEN InitialParts(p) * Get(p.scpi).part_price
    ELSE p.initial_value_eur

\* value[p.name] at construction
InitialValue(p) ==
    IF IsScpi(p) THEN InitialParts(p) * Get(p.scpi).part_price
    ELSE p.initial_value_eur

\* The state set up before the loop.
InitialLocals(ps) ==
    LET names == Names(ps)
        P(nm) == CHOOSE p \in Range(ps) : p.name = nm
        scpis == { nm \in names : IsScpi(P(nm)) }
        fcpis == { nm \in names : P(nm).kind = "fcpi" }
    IN  [ value |-> [nm \in names |-> InitialValue(P(nm))],
          invested |-> [nm \in names |->
                        IF ~IsNone(P(nm).initial_invested_eur)
                        THEN Get(P(nm).initial_invested_eur)
                        ELSE P(nm).initial_value_eur],
          scpi_parts |-> [nm \in scpis |-> InitialParts(P(nm))],
          scpi_part_price |-> [nm \in scpis |-> Get(P(nm).scpi).part_price],
          fcpi_lots |-> [nm \in fcpis |-> << >>],
          fcpi_contrib_ytd_by_product |-> [nm \in fcpis |-> 0] ]

RunBegin ==
    /\ pc = "call"
    /\ ~NoCash(products)
    /\ ~SeveralCash(products)
    /\ \E s \in {InitialLocals(products)} :
           /\ value' = s.value
           /\ invested' = s.invested
           /\ scpi_parts' = s.scpi_parts
           /\ scpi_part_price' = s.scpi_part_price
           /\ fcpi_lots' = s.fcpi_lots
           /\ fcpi_contrib_ytd_by_product' = s.fcpi_contrib_ytd_by_product
    /\ infl_idx' = Scale
    /\ tax_due_by_year' = << >>
    /\ tax_paid_ytd' = 0
    /\ tax_to_pay_this_year_annual' = cfg.tax.initial_tax_due_annual
    /\ per_contrib_ytd' = 0
    /\ income_annual_by_year' = << >>
    /\ rows' = << >>
    /\ i' = 0
    /\ pc' = "loop"
    /\ UNCHANGED << cfg, products, result, history >>

----------------------------------------------------------------------------
(* SimulationService.run: one iteration of the loop over the periods *)

RedeemedWholePrincipal(exit_mode, principal, product_value) ==
    IF exit_mode = "full_value" THEN product_value ELSE principal

\* What a matured lot pays out under each exit_mode.
Redeemed(exit_mode, principal, product_value) ==
    IF exit_mode = "full_value" THEN product_value
    ELSE Min2(principal, product_value)

\* FCPI maturities: the lots of product p from lot k on.
RECURSIVE LotLoop(_, _, _, _, _, _, _)
LotLoop(p, cash, step, lots, k, acc, remaining_lots) ==
    IF k > Len(lots) THEN [acc EXCEPT !.fcpi_lots[p.name] = remaining_lots]
    ELSE LET maturity_step == lots[k][1]
             principal == lots[k][2]
         IN  IF step >= maturity_step
             THEN LET redeemed == Redeemed(Get(p.fcpi).exit_mode, principal,
                                           acc.value[p.name])
                      acc2 == IF redeemed > 0
                              THEN [acc EXCEPT
                                      !.value[p.name] = @ - redeemed,
                                      !.value[cash] = @ + redeemed,
                                      !.redemptions[p.name] = @ + redeemed,
                                      !.invested[p.name] = Max2(0, @ - redeemed)]
                              ELSE acc
                  IN  LotLoop(p, cash, step, lots, k + 1, acc2, remaining_lots)
             ELSE LotLoop(p, cash, step, lots, k + 1, acc,
                          Append(remaining_lots, lots[k]))

\* acc: [value, invested, redemptions, fcpi_lots]
RECURSIVE MaturityLoop(_, _, _, _, _)
MaturityLoop(ps, cash, step, k, acc) ==
    IF k > Len(ps) THEN acc
    ELSE LET p == ps[k]
             lots == DictGet(acc.fcpi_lots, p.name, << >>)
         IN  IF ~IsFcpi(p) \/ lots = << >>
             THEN MaturityLoop(ps, cash, step, k + 1, acc)
             ELSE MaturityLoop(ps, cash, step, k + 1,
                               LotLoop(p, cash, step, lots, 1, acc, << >>))

InvestBudgetNoFloor(budget, cash_value) == Max2(0, cash_value)

InvestBudgetFloorOnlyIfEnforced(budget, cash_value) ==
    IF budget.enforce_emergency_fund_first
    THEN IF cash_value < budget.emergency_fund_target THEN 0
         ELSE cash_value - budget.emergency_fund_target
    ELSE Max2(0, cash_value)

\* Budget investissable
InvestBudget(budget, cash_value) ==
    IF budget.enforce_emergency_fund_first /\ cash_value < budget.emergency_fund_target
    THEN 0
    ELSE Max2(0, cash_value - budget.emergency_fund_target)

\* Demandes hors SCPI
Desired(ps, cash, income_period) ==
    LET wanting == { k \in DOMAIN ps : ps[k].name # cash /\ ~IsScpi(ps[k]) }
        P(nm) == CHOOSE p \in Range(ps) : p.name = nm
    IN  [nm \in { ps[k].name : k \in wanting } |->
            Max2(0, P(nm).contribution_per_period
                    + MulR(income_period, P(nm).contribution_pct_income))]

\* Plan d'achat SCPI of one product at this step of the year
ScpiPlan(period, step_in_year, sc) ==
    IF should_pay_dividend(period, step_in_year, sc.dividend_frequency)
    THEN LET n_payments == payments_per_year(sc.dividend_frequency)
             parts_this_time == sc.parts_per_year \div n_payments
             remainder == sc.parts_per_year % n_payments
             payments_done == Cardinality(
                 { st \in 0..(step_in_year - 1) :
                      should_pay_dividend(period, st, sc.dividend_frequency) })
         IN  IF payments_done < remainder THEN parts_this_time + 1
             ELSE parts_this_time
    ELSE 0

MaturityStepEarly(year_idx, holding, per_year) ==
    (year_idx + holding) * per_year - 1

\* The period at which a lot opened in year year_idx matures:
\* the last period of year year_idx + holding.
MaturityStep(year_idx, holding, per_year) ==
    LET maturity_year_idx == year_idx + holding
    IN  (maturity_year_idx + 1) * per_year - 1

\* The parts bought of a share fund: the plan, limited by the budget left
\* and by the cash held.
PartsToBuy(planned_parts, remaining, cash_value, price) ==
    LET max_by_remaining_parts == IF price > 0 THEN remaining \div price ELSE 0
        max_by_cash_parts == IF price > 0 THEN cash_value \div price ELSE 0
    IN  Min3(planned_parts, max_by_remaining_parts, max_by_cash_parts)

BuyPartsBasisInParts(acc, p, cash, parts_to_buy, price) ==
    [acc EXCEPT
        !.value[cash] = @ - parts_to_buy * price,
        !.remaining = @ - parts_to_buy * price,
        !.scpi_parts[p.name] = @ + parts_to_buy,
        !.value[p.name] = (acc.scpi_parts[p.name] + parts_to_buy) * price,
        !.invested[p.name] = @ + parts_to_buy,
        !.contributions[p.name] = @ + parts_to_buy * price]

\* The purchase of parts_to_buy parts at price.
BuyParts(acc, p, cash, parts_to_buy, price) ==
    LET spent == parts_to_buy * price
    IN  [acc EXCEPT
            !.value[cash] = @ - spent,
            !.remaining = @ - spent,
            !.scpi_parts[p.name] = @ + parts_to_buy,
            !.value[p.name] = (acc.scpi_parts[p.name] + parts_to_buy) * price,
            !.invested[p.name] = @ + spent,
            !.contributions[p.name] = @ + spent]

\* The amount allocated to a product that wants want.
AllocAmount(want, remaining, cash_value) ==
    LET alloc == Min2(want, remaining)
    IN  IF cash_value < alloc THEN Max2(0, cash_value) ELSE alloc

ContributeNoDebit(acc, p, cash, alloc, year_idx, per_year) ==
    [acc EXCEPT !.remaining = @ - alloc,
                !.value[p.name] = @ + alloc,
                !.invested[p.name] = @ + alloc,
                !.contributions[p.name] = @ + alloc]

ContributeUncredited(acc, p, cash, alloc, year_idx, per_year) ==
    [acc EXCEPT !.value[cash] = @ - alloc,
                !.remaining = @ - alloc,
                !.invested[p.name] = @ + alloc,
                !.contributions[p.name] = @ + alloc]

\* The transfer of alloc from cash to the product p.
Contribute(acc, p, cash, alloc, year_idx, per_year) ==
    LET acc2 == [acc EXCEPT
                    !.value[cash] = @ - alloc,
                    !.remaining = @ - alloc,
                    !.value[p.name] = @ + alloc,
                    !.invested[p.name] = @ + alloc,
                    !.contributions[p.name] = @ + alloc]
        acc3 == IF p.kind = "per"
                THEN [acc2 EXCEPT !.per_contrib_ytd = @ + alloc]
                ELSE acc2
        holding == IF ~IsNone(p.fcpi) THEN Get(p.fcpi).holding_years ELSE 8
    IN  IF p.kind = "fcpi"
        THEN [acc3 EXCEPT
                !.fcpi_contrib_ytd_by_product[p.name] = @ + alloc,
                !.fcpi_lots[p.name] =
                    Append(@, << MaturityStep(year_idx, holding, per_year), alloc >>)]
        ELSE acc3

AllocScpi(acc, p, cash, planned_parts, price, parts_to_buy) ==
    IF planned_parts <= 0 \/ parts_to_buy <= 0 THEN acc
    ELSE BuyParts(acc, p, cash, parts_to_buy, price)

AllocOther(acc, p, cash, want, alloc, year_idx, per_year) ==
    IF want <= 0 \/ alloc <= 0 THEN acc
    ELSE Contribute(acc, p, cash, alloc, year_idx, per_year)

\* One product of the allocation pass.
\* acc: [value, invested, remaining, contributions, scpi_parts,
\*       per_contrib_ytd, fcpi_contrib_ytd_by_product, fcpi_lots]
AllocOne(acc, p, cash, desired, period, year_idx, step_in_year, price_of) ==
    IF IsScpi(p)
    THEN AllocScpi(acc, p, cash,
                   ScpiPlan(period, step_in_year, Get(p.scpi)),
                   price_of[p.name],
                   PartsToBuy(ScpiPlan(period, step_in_year, Get(p.scpi)),
                              acc.remaining, acc.value[cash], price_of[p.name]))
    ELSE AllocOther(acc, p, cash,
                    DictGet(desired, p.name, 0),
                    AllocAmount(DictGet(desired, p.name, 0), acc.remaining,
                                acc.value[cash]),
                    year_idx, steps_per_year(period))

\* The allocation pass over the products sorted by priority, from k on.
RECURSIVE AllocLoop(_, _, _, _, _, _, _, _)
AllocLoop(sorted, k, acc, cash, desired, period, year_idx, step_in_year) ==
    IF k > Len(sorted) \/ acc.remaining <= 0 THEN acc
    ELSE AllocLoop(sorted, k + 1,
                   AllocOne(acc, sorted[k], cash, desired, period, year_idx,
                            step_in_year, scpi_part_price),
                   cash, desired, period, year_idx, step_in_year)

\* Rendements & dividendes of a share fund, given its revalued price, its
\* value at that price and the dividend of a payment period.
AccrueScpi(acc, p, cash, pays, price, val, div) ==
    IF pays /\ div > 0
    THEN IF Get(p.scpi).dividends_to_cash
         THEN [acc EXCEPT !.scpi_part_price[p.name] = price,
                          !.dividends[p.name] = @ + div,
                          !.value[p.name] = val,
                          !.value[cash] = @ + div]
         ELSE [acc EXCEPT !.scpi_part_price[p.name] = price,
                          !.dividends[p.name] = @ + div,
                          !.value[p.name] = val + div]
    ELSE [acc EXCEPT !.scpi_part_price[p.name] = price, !.value[p.name] = val]

ScpiDividend(period, sc, val) ==
    IF period = "yearly" THEN MulR(val, sc.distribution_annual)
    ELSE MulR(val, DivR(sc.distribution_annual,
                        payments_per_year(sc.dividend_frequency) * Scale))

AccrueScpiAt(acc, p, cash, period, step_in_year, parts, price) ==
    AccrueScpi(acc, p, cash,
               should_pay_dividend(period, step_in_year, Get(p.scpi).dividend_frequency),
               price, parts * price,
               ScpiDividend(period, Get(p.scpi), parts * price))

\* Rendements & dividendes of one product.
\* acc: [value, scpi_part_price, dividends]
AccrueOne(acc, p, cash, period, step_in_year, dt, parts_of) ==
    IF IsScpi(p)
    THEN AccrueScpiAt(acc, p, cash, period, step_in_year,
                      DictGet(parts_of, p.name, 0),
                      MulR(acc.scpi_part_price[p.name],
                           Scale + periodic_rate(Get(p.scpi).revaluation_annual, dt)))
    ELSE [acc EXCEPT !.value[p.name] =
              MulR(@, Scale + periodic_rate(p.annual_return, dt))]

RECURSIVE AccrueLoop(_, _, _, _, _, _, _, _)
AccrueLoop(ps, k, acc, cash, period, step_in_year, dt, parts_of) ==
    IF k > Len(ps) THEN acc
    ELSE AccrueLoop(ps, k + 1,
                    AccrueOne(acc, ps[k], cash, period, step_in_year, dt, parts_of),
                    cash, period, step_in_year, dt, parts_of)

RECURSIVE FcpiReductionTotalUncapped(_, _, _)
FcpiReductionTotalUncapped(ps, k, contrib_ytd) ==
    IF k > Len(ps) THEN 0
    ELSE IF ~IsFcpi(ps[k]) THEN FcpiReductionTotalUncapped(ps, k + 1, contrib_ytd)
    ELSE MulR(DictGet(contrib_ytd, ps[k].name, 0), Get(ps[k].fcpi).tax_reduction_rate)
         + FcpiReductionTotalUncapped(ps, k + 1, contrib_ytd)

\* Réduction FCPI (agrégée par produit, capée)
RECURSIVE FcpiReductionTotal(_, _, _)
FcpiReductionTotal(ps, k, contrib_ytd) ==
    IF k > Len(ps) THEN 0
    ELSE LET p == ps[k]
             rest == FcpiReductionTotal(ps, k + 1, contrib_ytd)
         IN  IF ~IsFcpi(p) THEN rest
             ELSE MulR(Min2(DictGet(contrib_ytd, p.name, 0),
                            Get(p.fcpi).annual_eligible_cap),
                       Get(p.fcpi).tax_reduction_rate) + rest

\* The body of the loop for period i is a chain of stages; each stage is an
\* operator of the results of the stages before it.

ArmedTaxNeverRearmed(year_idx) == cfg.tax.initial_tax_due_annual

\* Année: armer le paiement impôt de l'année précédente
ArmedTax(year_idx) ==
    IF year_idx = 0 THEN cfg.tax.initial_tax_due_annual
    ELSE DictGet(tax_due_by_year, year_idx - 1, 0)

\* Year boundary, inflation, income, living costs and tax payment.
Flow ==
    LET year_idx == i \div n_per_year
        step_in_year == i % n_per_year
        tax_to_pay ==
            IF step_in_year = 0 THEN ArmedTax(year_idx)
            ELSE tax_to_pay_this_year_annual
        tax_paid_ytd0 == IF step_in_year = 0 THEN 0 ELSE tax_paid_ytd
        income_annual ==
            MulR(cfg.income.gross_annual_start,
                 Pow(Scale + cfg.income.annual_growth, year_idx * Scale))
        income_period == MulR(income_annual, dt_years)
        living_costs_period == MulR(cfg.budget.annual_living_costs, dt_years)
        tax_paid_period == MulR(tax_to_pay, dt_years)
    IN  [ year_idx |-> year_idx,
          step_in_year |-> step_in_year,
          tax_to_pay |-> tax_to_pay,
          infl |-> MulR(infl_idx, Pow(Scale + cfg.inflation_annual, dt_years)),
          income_annual |-> income_annual,
          income_by_year |-> DictSet(income_annual_by_year, year_idx, income_annual),
          income_period |-> income_period,
          living_costs_period |-> living_costs_period,
          tax_paid_period |-> tax_paid_period,
          tax_paid_ytd |-> tax_paid_ytd0 + tax_paid_period,
          value |-> [value EXCEPT ![cash_name] =
                       @ + income_period - living_costs_period - tax_paid_period] ]

\* FCPI maturities
Mature(f) ==
    MaturityLoop(products, cash_name, i, 1,
        [value |-> f.value, invested |-> invested,
         redemptions |-> [nm \in Names(products) |-> 0],
         fcpi_lots |-> fcpi_lots])

\* Budget, demands and the allocation pass by priority
Allocate(f, mat) ==
    AllocLoop(
        SortedByPriority(SelectSeq(products, LAMBDA x : x.name # cash_name)),
        1,
        [value |-> mat.value, invested |-> mat.invested,
         remaining |-> InvestBudget(cfg.budget, mat.value[cash_name]),
         contributions |-> [nm \in Names(products) |-> 0],
         scpi_parts |-> scpi_parts,
         per_contrib_ytd |-> per_contrib_ytd,
         fcpi_contrib_ytd_by_product |-> fcpi_contrib_ytd_by_product,
         fcpi_lots |-> mat.fcpi_lots],
        cash_name, Desired(products, cash_name, f.income_period),
        cfg.period, f.year_idx, f.step_in_year)

\* Rendements & dividendes
Accrue(f, al) ==
    AccrueLoop(products, 1,
        [value |-> al.value, scpi_part_price |-> scpi_part_price,
         dividends |-> [nm \in Names(products) |-> 0]],
        cash_name, cfg.period, f.step_in_year, dt_years, al.scpi_parts)

TotalsBeforeAccrual(f, al, ac) ==
    [ total_value |-> SumValues(al.value),
      total_invested |-> 0,
      total_gains |-> 0 ]

\* Totals
Totals(f, al, ac) ==
    LET P(nm) == CHOOSE p \in Range(products) : p.name = nm
        non_cash == { nm \in Names(products) : P(nm).kind # "cash" }
    IN  [ total_value |-> SumValues(ac.value),
          total_invested |-> SumSet(al.invested, non_cash),
          total_gains |->
            SumSet([nm \in non_cash |->
                       (IF f.infl > 0 THEN DivR(ac.value[nm], f.infl)
                        ELSE ac.value[nm])
                       - al.invested[nm]], non_cash) ]

\* Plafond PER = 10% revenu N-1
PerCapForYear(f) ==
    compute_per_cap_from_income_prev(
        IF f.year_idx = 0
        THEN IF ~IsNone(cfg.income.gross_annual_previous)
             THEN Get(cfg.income.gross_annual_previous) ELSE f.income_annual
        ELSE f.income_by_year[f.year_idx - 1],
        cfg.per_cap)

SettleDeductCap(f, al, per_cap_for_year) ==
    [ tax_due_before_fcpi |->
          compute_progressive_tax(
              Max2(0, Max2(0, MulR(f.income_annual,
                                   Scale - cfg.tax.standard_deduction_rate))
                      - per_cap_for_year),
              cfg.tax),
      fcpi_reduction_total |->
          FcpiReductionTotal(products, 1, al.fcpi_contrib_ytd_by_product) ]

\* Fin d'année: impôt dû N (PER déduit + réduction FCPI)
Settle(f, al, per_cap_for_year) ==
    LET taxable_base ==
            Max2(0, MulR(f.income_annual, Scale - cfg.tax.standard_deduction_rate))
        per_deduction == Min2(al.per_contrib_ytd, per_cap_for_year)
        taxable_after_per == Max2(0, taxable_base - per_deduction)
    IN  [ tax_due_before_fcpi |->
              compute_progressive_tax(taxable_after_per, cfg.tax),
          fcpi_reduction_total |->
              FcpiReductionTotal(products, 1, al.fcpi_contrib_ytd_by_product) ]

\* The state after the period and the SimulationRow appended.
Emit(f, mat, al, ac, per_cap_for_year, tot, st) ==
    LET year_end == f.step_in_year = n_per_year - 1
        tax_due == Max2(0, st.tax_due_before_fcpi - st.fcpi_reduction_total)
        per_ytd_out == IF year_end THEN 0 ELSE al.per_contrib_ytd
    IN  [ value |-> ac.value,
          invested |-> al.invested,
          scpi_parts |-> al.scpi_parts,
          scpi_part_price |-> ac.scpi_part_price,
          fcpi_lots |-> al.fcpi_lots,
          infl_idx |-> f.infl,
          tax_due_by_year |->
              IF year_end THEN DictSet(tax_due_by_year, f.year_idx, tax_due)
              ELSE tax_due_by_year,
          tax_paid_ytd |-> f.tax_paid_ytd,
          tax_to_pay_this_year_annual |-> f.tax_to_pay,
          per_contrib_ytd |-> per_ytd_out,
          fcpi_contrib_ytd_by_product |->
              IF year_end
              THEN [nm \in DOMAIN al.fcpi_contrib_ytd_by_product |-> 0]
              ELSE al.fcpi_contrib_ytd_by_product,
          income_annual_by_year |-> f.income_by_year,
          row |->
            [ period_index |-> i,
              year_index |-> f.year_idx,
              year_number |-> f.year_idx + 1,
              step_in_year |-> f.step_in_year,
              income_annual |-> f.income_annual,
              income_period |-> f.income_period,
              living_costs_period |-> f.living_costs_period,
              tax_paid_period |-> f.tax_paid_period,
              tax_paid_year_to_date |-> f.tax_paid_ytd,
              tax_due_for_year |-> IF year_end THEN Some(tax_due) ELSE None,
              fcpi_tax_reduction_for_year |->
                  IF year_end
                  THEN Some(Min2(st.fcpi_reduction_total, st.tax_due_before_fcpi))
                  ELSE None,
              per_cap_for_year |-> per_cap_for_year,
              per_contrib_year_to_date |-> per_ytd_out,
              cash_before_invest |-> mat.value[cash_name],
              cash_after_invest |-> al.value[cash_name],
              contributions_by_product |-> al.contributions,
              dividends_by_product |-> ac.dividends,
              scpi_parts_by_product |->
                  [nm \in Names(products) |-> DictGet(al.scpi_parts, nm, 0)],
              redemptions_by_product |-> mat.redemptions,
              value_by_product |-> ac.value,
              invested_by_product |-> al.invested,
              total_value |-> tot.total_value,
              total_invested |-> tot.total_invested,
              total_gains |-> tot.total_gains,
              inflation_index |-> f.infl,
              total_value_real |->
                  IF f.infl > 0 THEN DivR(tot.total_value, f.infl)
                  ELSE tot.total_value ] ]

AfterAccrual(f, mat, al, ac, per_cap_for_year) ==
    Emit(f, mat, al, ac, per_cap_for_year,
         Totals(f, al, ac), Settle(f, al, per_cap_for_year))
AfterAllocation(f, mat, al) ==
    AfterAccrual(f, mat, al, Accrue(f, al), PerCapForYear(f))
AfterMaturities(f, mat) == AfterAllocation(f, mat, Allocate(f, mat))
AfterFlowCreditingLate(f) ==
    AfterMaturities(f, [Mature(f) EXCEPT !.value[cash_name] = f.value[cash_name]])

AfterFlow(f) == AfterMaturities(f, Mature(f))

PeriodStep == AfterFlow(Flow)

Period ==
    /\ pc = "loop"
    /\ i < n_steps
    /\ \E s \in {PeriodStep} :
           /\ value' = s.value
           /\ invested' = s.invested
           /\ scpi_parts' = s.scpi_parts
           /\ scpi_part_price' = s.scpi_part_price
           /\ fcpi_lots' = s.fcpi_lots
           /\ infl_idx' = s.infl_idx
           /\ tax_due_by_year' = s.tax_due_by_year
           /\ tax_paid_ytd' = s.tax_paid_ytd
           /\ tax_to_pay_this_year_annual' = s.tax_to_pay_this_year_annual
           /\ per_contrib_ytd' = s.per_contrib_ytd
           /\ fcpi_contrib_ytd_by_product' = s.fcpi_contrib_ytd_by_product
           /\ income_annual_by_year' = s.income_annual_by_year
           /\ rows' = Append(rows, s.row)
    /\ i' = i + 1
    /\ UNCHANGED << cfg, products, pc, result, history >>

tax_due_next_yearOfFirstYear == DictGet(tax_due_by_year, 0, 0)

\* tax_due_by_year.get(cfg.years - 1, D(0))
tax_due_next_year == DictGet(tax_due_by_year, cfg.years - 1, 0)

\* The loop is over: build the SimulationResult.
Return ==
    /\ pc = "loop"
    /\ i >= n_steps
    /\ result' = Some([ rows |-> rows,
                        product_names |-> [k \in DOMAIN products |-> products[k].name],
                        cash_product |-> cash_name,
                        tax_due_next_year |-> tax_due_next_year ])
    /\ pc' = "returned"
    /\ UNCHANGED << cfg, products, locals, history >>

\* The orderings of a list
Orderings(ps) ==
    { [k \in DOMAIN ps |-> ps[f[k]]] :
        f \in { g \in [DOMAIN ps -> DOMAIN ps] :
                  \A a, b \in DOMAIN ps : a # b => g[a] # g[b] } }

\* The caller runs the same service again, on the same configuration and on
\* the same products, possibly listed in another order.
CallAgain ==
    /\ pc \in {"returned", "raised"}
    /\ history = << >>
    /\ history' = << [products |-> products, result |-> Get(result)] >>
    /\ products' \in Orderings(products)
    /\ result' = None
    /\ pc' = "call"
    /\ UNCHANGED << cfg, locals >>

\* One call of run.
Next ==
    \/ RaiseNoCash
    \/ RaiseSeveralCash
    \/ RunBegin
    \/ Period
    \/ Return

Spec == Init /\ [][Next]_vars

\* Two calls of run on the same service.  The inputs are those of Spec with
\* at most MaxStepsTwice periods, growing income and the products every
\* kind of which takes part in the allocation pass.
MaxStepsTwice == 4

TwiceConfigs ==
    { c \in Configs : /\ c.years * steps_per_year(c.period) <= MaxStepsTwice
                      /\ c.income.annual_growth = 100
                      /\ ~IsNone(c.income.gross_annual_previous) }

TwiceLists == ListsOver({1, 2, 3, 4, 6, 7, 9})

InitTwice == InitOver(TwiceConfigs, TwiceLists)

NextTwice ==
    \/ RaiseNoCash
    \/ RaiseSeveralCash
    \/ RunBegin
    \/ Period
    \/ Return
    \/ CallAgain

SpecTwice == InitTwice /\ [][NextTwice]_vars

\* The control flow of run: the entry checks, then one iteration of the
\* loop per period, then the return.  Every step of Next is a step of it.
ControlStep ==
    \/ pc = "call" /\ pc' \in {"loop", "raised"} /\ i' = 0
    \/ pc = "loop" /\ i < n_steps /\ pc' = "loop" /\ i' = i + 1
    \/ pc = "loop" /\ i >= n_steps /\ pc' = "returned" /\ i' = i

\* One call of run on the inputs of Spec and on the degenerate ones: no
\* income in the year before the first, a share fund whose part price is 0.
\* run is sequential code that the interpreter keeps executing, hence the
\* weak fairness of its control flow.
ZeroPreviousIncome ==
    { [c EXCEPT !.income.gross_annual_previous = Some(0)] : c \in Configs }

InitLive == InitOver(Configs \cup ZeroPreviousIncome,
                     ProductLists \cup ListsOver({1, 2, 3, 6, 10}))

SpecLive == InitLive /\ [][Next]_vars /\ WF_<<pc, i>>(ControlStep)

\* One call of run on a cash product and products that are held without
\* contributing to them.
InitHold == InitOver(Configs, ListsOver({1, 2, 11, 12}))

SpecHold == InitHold /\ [][Next]_vars

\* One year of the purchase plan and of the distributions of a share fund
\* that holds 10 parts at a constant price: the plan and the
\* distribution of each step of the year, as the loop computes them.
MaxParts == 13

Frequencies == {"monthly", "quarterly", "semiannual", "yearly"}

ShareFunds ==
    { [ProductSimConfig("fund", "scpi") EXCEPT
          !.scpi = Some([SCPIConfig(100, n, y) EXCEPT !.dividend_frequency = f]),
          !.initial_scpi_parts = Some(10)] :
        n \in 0..MaxParts, y \in {48, 120}, f \in Frequencies }

InitShareYear ==
    /\ cfg \in { c \in Configs : /\ c.years = 1
                                 /\ c.income.annual_growth = 0
                                 /\ IsNone(c.income.gross_annual_previous)
                                 /\ c.budget.annual_living_costs = 1200
                                 /\ c.budget.enforce_emergency_fund_first }
    /\ products \in { << p >> : p \in ShareFunds }
    /\ pc = "plan"
    /\ i = 0
    /\ value = << >> /\ invested = << >> /\ scpi_parts = << >>
    /\ scpi_part_price = << >> /\ fcpi_lots = << >>
    /\ infl_idx = Scale /\ tax_due_by_year = << >> /\ tax_paid_ytd = 0
    /\ tax_to_pay_this_year_annual = 0 /\ per_contrib_ytd = 0
    /\ fcpi_contrib_ytd_by_product = << >> /\ income_annual_by_year = << >>
    /\ rows = << >>
    /\ result = None
    /\ history = << >>

\* The plan and the distribution of step i of the year.
ShareYearStep(period, step_in_year, p) ==
    [ step_in_year |-> step_in_year,
      pays |-> should_pay_dividend(period, step_in_year,
                                   Get(p.scpi).dividend_frequency),
      planned |-> ScpiPlan(period, step_in_year, Get(p.scpi)),
      dividend |->
          IF should_pay_dividend(period, step_in_year,
                                 Get(p.scpi).dividend_frequency)
          THEN Max2(0, ScpiDividend(period, Get(p.scpi), InitialValue(p)))
          ELSE 0 ]

PlanStep ==
    /\ pc = "plan"
    /\ i < n_per_year
    /\ rows' = Append(rows, ShareYearStep(cfg.period, i, products[1]))
    /\ i' = i + 1
    /\ UNCHANGED << cfg, products, pc, value, invested, scpi_parts,
                    scpi_part_price, fcpi_lots, infl_idx, tax_due_by_year,
                    tax_paid_ytd, tax_to_pay_this_year_annual, per_contrib_ytd,
                    fcpi_contrib_ytd_by_product, income_annual_by_year,
                    result, history >>

SpecShareYear == InitShareYear /\ [][PlanStep]_vars

\* One call of run on the products of Spec with every annual_return,
\* distribution_annual and revaluation_annual set to zero.
ZeroRates(p) ==
    [p EXCEPT !.annual_return = 0,
              !.scpi = IF IsNone(@) THEN None
                       ELSE Some([Get(@) EXCEPT !.distribution_annual = 0,
                                                !.revaluation_annual = 0])]

ZeroRateLists ==
    { [k \in DOMAIN ps |-> ZeroRates(ps[k])] : ps \in ProductLists }

InitZeroRates == InitOver(Configs, ZeroRateLists)

SpecZeroRates == InitZeroRates /\ [][Next]_vars

\* One call of run under retirement caps of every shape: with and without
\* a ceiling, the floor below, at and above the ceiling.
PerCapConfigs ==
    [ rate_of_income_prev_year : {0, 100},
      annual_min : {0, 150, 300},
      annual_max : {None, Some(0), Some(200), Some(300)} ]

CapConfigs ==
    { [c EXCEPT !.per_cap = pcap] :
        c \in { d \in Configs : /\ d.years <= 2
                                /\ d.period # "monthly"
                                /\ d.income.annual_growth = 100
                                /\ d.budget.enforce_emergency_fund_first },
        pcap \in PerCapConfigs }

InitPerCap == InitOver(CapConfigs, ListsOver({1, 2, 6}))

SpecPerCap == InitPerCap /\ [][Next]_vars

\* compute_progressive_tax on its own: the tax of growing taxable amounts
\* under several bracket tables and household splits, one amount per step.
MaxTaxable == 14

BracketTables ==
    { Brackets,
      << [up_to |-> None, rate |-> 200] >>,
      << [up_to |-> Some(500), rate |-> 300],
         [up_to |-> Some(1500), rate |-> 100],
         [up_to |-> None, rate |-> 0] >>,
      << [up_to |-> Some(1000), rate |-> -100],
         [up_to |-> None, rate |-> 300] >> }

TaxConfigs ==
    { [c EXCEPT !.tax.brackets = b, !.tax.household_parts = s] :
        c \in { d \in Configs : /\ d.years = 1
                                /\ d.period = "yearly"
                                /\ d.income.annual_growth = 0
                                /\ IsNone(d.income.gross_annual_previous)
                                /\ d.budget.annual_living_costs = 1200
                                /\ d.budget.enforce_emergency_fund_first },
        b \in BracketTables,
        s \in {Scale, 1500, 2 * Scale, 3 * Scale} }

\* The taxable amount of step k: a negative one, zero, then growing ones.
TaxableAt(k) == (k - 1) * 250

InitTax ==
    /\ cfg \in TaxConfigs
    /\ products = << >>
    /\ pc = "tax"
    /\ i = 0
    /\ value = << >> /\ invested = << >> /\ scpi_parts = << >>
    /\ scpi_part_price = << >> /\ fcpi_lots = << >>
    /\ infl_idx = Scale /\ tax_due_by_year = << >> /\ tax_paid_ytd = 0
    /\ tax_to_pay_this_year_annual = 0 /\ per_contrib_ytd = 0
    /\ fcpi_contrib_ytd_by_product = << >> /\ income_annual_by_year = << >>
    /\ rows = << >>
    /\ result = None
    /\ history = << >>

TaxStep ==
    /\ pc = "tax"
    /\ i < MaxTaxable
    /\ rows' = Append(rows, [taxable |-> TaxableAt(i),
                             tax |-> compute_progressive_tax(TaxableAt(i), cfg.tax)])
    /\ i' = i + 1
    /\ UNCHANGED << cfg, products, pc, value, invested, scpi_parts,
                    scpi_part_price, fcpi_lots, infl_idx, tax_due_by_year,
                    tax_paid_ytd, tax_to_pay_this_year_annual, per_contrib_ytd,
                    fcpi_contrib_ytd_by_product, income_annual_by_year,
                    result, history >>

SpecTax == InitTax /\ [][TaxStep]_vars

\* distribute_integer_over_periods on its own: one call per step, on any
\* total of magnitude up to MaxTotal and any n from -1 to MaxPeriods.
MaxTotal == 9
MaxPeriods == 5

InitDistribute ==
    /\ cfg \in { c \in Configs : /\ c.years = 1
                                 /\ c.period = "yearly"
                                 /\ c.income.annual_growth = 0
                                 /\ IsNone(c.income.gross_annual_previous)
                                 /\ c.budget.annual_living_costs = 1200
                                 /\ c.budget.enforce_emergency_fund_first }
    /\ products = << >>
    /\ pc = "distribute"
    /\ i = 0
    /\ value = << >> /\ invested = << >> /\ scpi_parts = << >>
    /\ scpi_part_price = << >> /\ fcpi_lots = << >>
    /\ infl_idx = Scale /\ tax_due_by_year = << >> /\ tax_paid_ytd = 0
    /\ tax_to_pay_this_year_annual = 0 /\ per_contrib_ytd = 0
    /\ fcpi_contrib_ytd_by_product = << >> /\ income_annual_by_year = << >>
    /\ rows = << >>
    /\ result = None
    /\ history = << >>

DistributeCall ==
    /\ pc = "distribute"
    /\ \E total \in (-MaxTotal)..MaxTotal, n \in (-1)..MaxPeriods :
          rows' = << [total |-> total, n |-> n,
                      parts |-> distribute_integer_over_periods(total, n)] >>
    /\ UNCHANGED << cfg, products, pc, i, value, invested, scpi_parts,
                    scpi_part_price, fcpi_lots, infl_idx, tax_due_by_year,
                    tax_paid_ytd, tax_to_pay_this_year_annual, per_contrib_ytd,
                    fcpi_contrib_ytd_by_product, income_annual_by_year,
                    result, history >>

SpecDistribute == InitDistribute /\ [][DistributeCall]_vars

\* The caller runs the same service again on the same products, with
\* enforce_emergency_fund_first switched.
CallWithFlagSwitched ==
    /\ pc \in {"returned", "raised"}
    /\ history = << >>
    /\ history' = << [products |-> products, result |-> Get(result),
                      cfg |-> cfg] >>
    /\ cfg' = [cfg EXCEPT !.budget.enforce_emergency_fund_first = ~@]
    /\ result' = None
    /\ pc' = "call"
    /\ UNCHANGED << products, locals >>

\* Two calls of run that differ in the flag only, on configurations of at
\* most MaxStepsTwice periods.
FlagConfigs ==
    { c \in Configs : /\ c.years * steps_per_year(c.period) <= MaxStepsTwice
                      /\ c.income.annual_growth = 0 }

InitFlag == InitOver(FlagConfigs, ListsOver({1, 2, 3, 4, 6, 7}))

NextFlag ==
    \/ RaiseNoCash
    \/ RaiseSeveralCash
    \/ RunBegin
    \/ Period
    \/ Return
    \/ CallWithFlagSwitched

SpecFlag == InitFlag /\ [][NextFlag]_vars

----------------------------------------------------------------------------
(* Properties *)

ProductNamed(nm) == CHOOSE p \in Range(products) : p.name = nm
NonCashNames == { nm \in Names(products) : nm # cash_name }
ScpiNames == { nm \in Names(products) : IsScpi(ProductNamed(nm)) }

\* The demand of product p in the period of row r, before flooring at zero.
Want(p, r) ==
    p.contribution_per_period + MulR(r.income_period, p.contribution_pct_income)

\* The share count of nm before the period of rows[k].
PartsBefore(k, nm) ==
    IF k = 1 THEN InitialParts(ProductNamed(nm))
    ELSE rows[k - 1].scpi_parts_by_product[nm]

\* C1: run raises before any period is simulated (no row, no result) when
\* the list has no cash product or more than one; with exactly one cash
\* product it never raises.
C1_SingleCashEnforced ==
    IF Len(cash_candidates(products)) = 1
    THEN /\ pc # "raised"
         /\ pc = "returned" => DOMAIN Get(result) # {"error"}
    ELSE /\ pc \in {"call", "raised"}
         /\ rows = << >> /\ i = 0 /\ value = << >>
         /\ pc = "call" => /\ result = None
                           /\ ENABLED (RaiseNoCash \/ RaiseSeveralCash)
                           /\ ~ENABLED RunBegin
         /\ pc = "raised" => DOMAIN Get(result) = {"error"}

C1_Witness == pc = "raised" /\ Len(cash_candidates(products)) = 2

\* C2: in every row, total_value is the sum of the row's value_by_product.
C2_TotalIsSumOfValues ==
    \A k \in DOMAIN rows :
        rows[k].total_value = SumValues(rows[k].value_by_product)

C2_Witness ==
    \E k \in DOMAIN rows :
        /\ Cardinality({ nm \in DOMAIN rows[k].value_by_product :
                            rows[k].value_by_product[nm] > 0 }) >= 3
        /\ \E nm \in DOMAIN rows[k].dividends_by_product :
               rows[k].dividends_by_product[nm] > 0

\* C3: when the emergency-fund floor is enforced and no demand is
\* negative, cash_after_invest >= 0 in every row.
NoNegativeDemand(r) ==
    \A nm \in NonCashNames :
        IsScpi(ProductNamed(nm)) \/ Want(ProductNamed(nm), r) >= 0

C3_CashAfterInvestNonNegative ==
    cfg.budget.enforce_emergency_fund_first =>
        \A k \in DOMAIN rows :
            NoNegativeDemand(rows[k]) => rows[k].cash_after_invest >= 0

\* C4: in every row cash_after_invest <= cash_before_invest, the difference
\* is the sum of the row's contributions, every contribution is >= 0, a
\* negative demand yields a zero contribution and cash contributes 0 to
\* itself.
C4_Row(r) ==
    /\ r.cash_after_invest <= r.cash_before_invest
    /\ r.cash_before_invest - r.cash_after_invest
          = SumValues(r.contributions_by_product)
    /\ \A nm \in DOMAIN r.contributions_by_product :
          r.contributions_by_product[nm] >= 0
    /\ r.contributions_by_product[cash_name] = 0
    /\ \A nm \in NonCashNames :
          (~IsScpi(ProductNamed(nm)) /\ Want(ProductNamed(nm), r) < 0)
              => r.contributions_by_product[nm] = 0

C4_ContributionsDebitCash == \A k \in DOMAIN rows : C4_Row(rows[k])

C4_Witness ==
    \E k \in DOMAIN rows :
        /\ \E nm \in NonCashNames :
              ~IsScpi(ProductNamed(nm)) /\ Want(ProductNamed(nm), rows[k]) < 0
        /\ \E nm \in NonCashNames : rows[k].contributions_by_product[nm] > 0

\* C5: the allocation pass never takes cash below the emergency-fund
\* floor; below the floor nothing is contributed and no share is bought.
C5_Row(k) ==
    LET r == rows[k]
        floor == cfg.budget.emergency_fund_target
    IN  /\ r.cash_before_invest >= floor => r.cash_after_invest >= floor
        /\ r.cash_before_invest < floor =>
              /\ r.cash_after_invest = r.cash_before_invest
              /\ \A nm \in DOMAIN r.contributions_by_product :
                    r.contributions_by_product[nm] = 0
              /\ \A nm \in ScpiNames :
                    r.scpi_parts_by_product[nm] = PartsBefore(k, nm)

C5_FloorKept == \A k \in DOMAIN rows : C5_Row(k)

\* the budget runs out: a product is served in part and cash ends on the
\* floor; and a later period starts below the floor
C5_Witness ==
    /\ \E k \in DOMAIN rows :
          /\ rows[k].cash_before_invest > cfg.budget.emergency_fund_target
          /\ rows[k].cash_after_invest = cfg.budget.emergency_fund_target
    /\ \E k \in DOMAIN rows :
          /\ rows[k].cash_before_invest < cfg.budget.emergency_fund_target
          /\ \E nm \in NonCashNames :
                Want(ProductNamed(nm), rows[k]) > 0

\* The rows that end a year: those with tax_due_for_year set.
YearEndRows == { k \in DOMAIN rows : ~IsNone(rows[k].tax_due_for_year) }

SameTaxEveryYear ==
    \A j, k \in YearEndRows :
        rows[j].tax_due_for_year = rows[k].tax_due_for_year

\* C6 as stated: with zero income growth (the bracket table is fixed in
\* every run), tax_due_for_year is the same in every simulated year.
C6_SameTaxUnderZeroGrowth ==
    cfg.income.annual_growth = 0 => SameTaxEveryYear

NoTaxAdvantagedContribution ==
    \A k \in DOMAIN rows : \A nm \in Names(products) :
        ProductNamed(nm).kind \in {"per", "fcpi"}
            => rows[k].contributions_by_product[nm] = 0

\* C6 amended: with zero income growth and no contribution to a per or
\* fcpi product, tax_due_for_year is the same in every simulated year.
C6_SameTaxWithoutDeductions ==
    (cfg.income.annual_growth = 0 /\ NoTaxAdvantagedContribution)
        => SameTaxEveryYear

C6_Witness ==
    /\ pc = "returned"
    /\ cfg.income.annual_growth = 0
    /\ NoTaxAdvantagedContribution
    /\ Cardinality(YearEndRows) >= 2
    /\ \A k \in YearEndRows : Get(rows[k].tax_due_for_year) > 0
    /\ \E k \in DOMAIN rows : \E nm \in NonCashNames :
          rows[k].contributions_by_product[nm] > 0

FcpiNames == { nm \in Names(products) : IsFcpi(ProductNamed(nm)) }
HoldingYears(nm) == Get(ProductNamed(nm).fcpi).holding_years

\* the final period of year year_number + h
ClaimedMaturity(year_number, h) == (year_number - 1 + h + 1) * n_per_year - 1

ContributedInYear(nm, year_number) ==
    SumSet([k \in DOMAIN rows |-> rows[k].contributions_by_product[nm]],
           { k \in DOMAIN rows : rows[k].year_number = year_number })

FirstContribution(nm) ==
    CHOOSE k \in DOMAIN rows :
        /\ rows[k].contributions_by_product[nm] > 0
        /\ \A j \in 1..(k - 1) : rows[j].contributions_by_product[nm] = 0

C7_Product(nm, h) ==
    /\ \A k \in DOMAIN rows :
          rows[k].redemptions_by_product[nm] > 0 =>
              /\ \E j \in 1..(k - 1) : rows[j].contributions_by_product[nm] > 0
              /\ rows[k].period_index >=
                    ClaimedMaturity(rows[FirstContribution(nm)].year_number, h)
              /\ \E y \in 1..cfg.years :
                    rows[k].period_index = ClaimedMaturity(y, h)
    /\ Get(ProductNamed(nm).fcpi).exit_mode = "principal" =>
          \A y \in 1..cfg.years :
              ClaimedMaturity(y, h) + 1 \in DOMAIN rows =>
                  rows[ClaimedMaturity(y, h) + 1].redemptions_by_product[nm]
                    = Max2(0, Min2(ContributedInYear(nm, y),
                                   rows[ClaimedMaturity(y, h)].value_by_product[nm]))

C8_Step(nm, r) ==
    LET bought == scpi_parts'[nm] - scpi_parts[nm]
    IN  /\ scpi_parts[nm] \in Nat /\ bought \in Nat
        /\ r.scpi_parts_by_product[nm] = scpi_parts'[nm]
        /\ r.contributions_by_product[nm] = bought * scpi_part_price[nm]
        /\ invested'[nm] - invested[nm] = bought * scpi_part_price[nm]
        /\ bought > 0 => r.cash_after_invest >= 0

\* C8: share counts are non-negative integers that never decrease; a
\* purchase costs shares_bought x the current share price, which is debited
\* from cash and added to the cost basis and to the contribution, and it
\* leaves cash >= 0.
C8_SharePurchases ==
    [][(pc = "loop" /\ i' = i + 1) =>
          /\ \A nm \in ScpiNames : C8_Step(nm, rows'[Len(rows')])
          /\ rows'[Len(rows')].cash_before_invest
                - rows'[Len(rows')].cash_after_invest
                = SumValues(rows'[Len(rows')].contributions_by_product)]_vars

C8_Witness ==
    \E nm \in ScpiNames : \E k \in DOMAIN rows :
        /\ k > 1
        /\ rows[k].scpi_parts_by_product[nm] > rows[k - 1].scpi_parts_by_product[nm]
        /\ rows[k].contributions_by_product[nm] > 0
        /\ \E j \in DOMAIN rows :
              /\ rows[j].scpi_parts_by_product[nm] = PartsBefore(j, nm)
              /\ rows[j].cash_before_invest > cfg.budget.emergency_fund_target

\* The earlier call returned rows.
EarlierRows == Get(<< history[1].result >>).rows

\* C9: two runs on lists that are permutations of each other produce the
\* same rows.
C9_ListOrderIrrelevant ==
    (pc = "returned" /\ history # << >>) => Get(result).rows = EarlierRows

\* C10: a second run on the same configuration and list returns the same
\* result as the first (rows and summary, or the same error), and no step of
\* a run changes the configuration or the products it was given.
C10_RunsIndependent ==
    /\ [](( /\ pc \in {"returned", "raised"}
            /\ history # << >>
            /\ products = history[1].products )
          => Get(result) = history[1].result)
    /\ [][pc' # "call" => (cfg' = cfg /\ products' = products)]_vars

C10_Witness ==
    /\ pc = "returned"
    /\ history # << >>
    /\ products = history[1].products
    /\ Len(products) >= 3
    /\ Len(rows) >= 4
    /\ \E nm \in NonCashNames : rows[1].contributions_by_product[nm] > 0

\* The periods per year of a granularity, as the configuration reads.
PeriodsPerYear ==
    CASE cfg.period = "monthly" -> 12
      [] cfg.period = "quarterly" -> 4
      [] cfg.period = "yearly" -> 1

RowsInPeriodOrder ==
    \A k \in DOMAIN rows :
        /\ rows[k].period_index = k - 1
        /\ rows[k].year_index = (k - 1) \div PeriodsPerYear
        /\ rows[k].year_number = rows[k].year_index + 1
        /\ rows[k].step_in_year = (k - 1) % PeriodsPerYear

ZeroPriceBuysNothing ==
    \A nm \in ScpiNames : Get(ProductNamed(nm).scpi).part_price = 0 =>
        \A k \in DOMAIN rows :
            /\ rows[k].scpi_parts_by_product[nm] = 0
            /\ rows[k].contributions_by_product[nm] = 0
            /\ rows[k].value_by_product[nm] = 0

ZeroPreviousIncomeZeroCap ==
    cfg.income.gross_annual_previous = Some(0) =>
        \A k \in DOMAIN rows :
            rows[k].year_index = 0 => rows[k].per_cap_for_year = 0

\* C11: a run on a list with exactly one cash product never raises, reaches
\* its return, and returns years x periodsPerYear rows in period order with
\* period_index, year_index, year_number and step_in_year as stated; a part
\* price of 0 buys no part and no income in the previous year gives a cap
\* of 0.
C11_RunCompletes ==
    /\ [](Len(cash_candidates(products)) = 1 =>
            /\ pc # "raised"
            /\ RowsInPeriodOrder
            /\ ZeroPriceBuysNothing
            /\ ZeroPreviousIncomeZeroCap
            /\ pc = "returned" =>
                  /\ Len(rows) = cfg.years * PeriodsPerYear
                  /\ Get(result).rows = rows)
    /\ [][Next => ControlStep]_vars
    /\ (pc = "call" /\ Len(cash_candidates(products)) = 1) ~> (pc = "returned")

C11_Witness ==
    /\ pc = "returned"
    /\ cfg.income.gross_annual_previous = Some(0)
    /\ cfg.years >= 2
    /\ Len(rows) = cfg.years * PeriodsPerYear
    /\ \E nm \in ScpiNames :
          /\ Get(ProductNamed(nm).scpi).part_price = 0
          /\ Get(ProductNamed(nm).scpi).parts_per_year > 0
          /\ \E k \in DOMAIN rows :
                rows[k].cash_before_invest > cfg.budget.emergency_fund_target
    /\ \E nm \in NonCashNames : \E k \in DOMAIN rows :
          ProductNamed(nm).kind = "per" /\ rows[k].contributions_by_product[nm] > 0

IsYearFinal(r) == r.step_in_year = PeriodsPerYear - 1

\* C12: tax_due_for_year and fcpi_tax_reduction_for_year are set on a row
\* exactly when the row is the final period of its year, and the result's
\* tax_due_next_year is the tax_due_for_year of the final row.
C12_YearEndFieldsAndNextYearTax ==
    /\ \A k \in DOMAIN rows :
          /\ ~IsNone(rows[k].tax_due_for_year) <=> IsYearFinal(rows[k])
          /\ ~IsNone(rows[k].fcpi_tax_reduction_for_year) <=> IsYearFinal(rows[k])
    /\ pc = "returned" =>
          /\ rows # << >>
          /\ ~IsNone(rows[Len(rows)].tax_due_for_year)
          /\ Get(result).tax_due_next_year = Get(rows[Len(rows)].tax_due_for_year)

C12_Witness ==
    /\ pc = "returned"
    /\ PeriodsPerYear > 1
    /\ Cardinality(YearEndRows) >= 2
    /\ Get(result).tax_due_next_year > 0
    /\ \E k \in YearEndRows :
          /\ Get(rows[k].tax_due_for_year) # Get(result).tax_due_next_year
          /\ Get(rows[k].fcpi_tax_reduction_for_year) > 0

PerNames == { nm \in Names(products) : ProductNamed(nm).kind = "per" }

\* The contributions to per products in the periods of the year of rows[k],
\* up to and including rows[k].
PerContributedSoFar(k) ==
    SumSet([j \in DOMAIN rows |->
               SumSet(rows[j].contributions_by_product, PerNames)],
           { j \in 1..k : rows[j].year_index = rows[k].year_index })

\* C13: per_contrib_year_to_date in every row is the sum of the
\* contributions to per products in the periods of the same year up to and
\* including that row.
C13_PerYearToDate ==
    \A k \in DOMAIN rows :
        rows[k].per_contrib_year_to_date = PerContributedSoFar(k)

\* The products of kind other that are never contributed to.
HeldNames ==
    { nm \in Names(products) :
        /\ ProductNamed(nm).kind = "other"
        /\ ProductNamed(nm).contribution_per_period = 0
        /\ ProductNamed(nm).contribution_pct_income = 0 }

\* The value of nm at the end of the year before the year of rows[k].
PreviousYearEnd(k, nm) ==
    IF k > PeriodsPerYear THEN rows[k - PeriodsPerYear].value_by_product[nm]
    ELSE ProductNamed(nm).initial_value_eur

Distance(a, b) == IF a >= b THEN a - b ELSE b - a

\* The rounding tolerance of a year of compounding: one unit of the last
\* digit of the periodic rate and of the value, per period.
CompoundTolerance(v) == (v * PeriodsPerYear) \div Scale + PeriodsPerYear

\* C14: the value of a product of kind other without contributions at the
\* end of each full year is the value at the end of the year before times
\* (1 + annual_return), within the rounding tolerance, at every granularity;
\* at monthly granularity after 12 periods it is initial value x (1 + r).
C14_CompoundsToAnnualReturn ==
    \A nm \in HeldNames : \A k \in DOMAIN rows :
        IsYearFinal(rows[k]) =>
            LET expected == MulR(PreviousYearEnd(k, nm),
                                 Scale + ProductNamed(nm).annual_return)
            IN  Distance(rows[k].value_by_product[nm], expected)
                    <= CompoundTolerance(expected)

C14_Witness ==
    /\ cfg.period = "monthly"
    /\ Len(rows) = 12
    /\ Cardinality(HeldNames) = 2
    /\ \A nm \in HeldNames :
          /\ rows[12].value_by_product[nm] # ProductNamed(nm).initial_value_eur
          /\ \A k \in DOMAIN rows : rows[k].contributions_by_product[nm] = 0

\* The liability armed for the year of rows[k]: the tax due of the year
\* before, or the configured one in the first year.
ArmedForRow(k) ==
    IF rows[k].year_index = 0 THEN cfg.tax.initial_tax_due_annual
    ELSE Get(rows[rows[k].year_index * PeriodsPerYear].tax_due_for_year)

TaxRestartsEachYear ==
    \A k \in DOMAIN rows :
        rows[k].step_in_year = 0 =>
            rows[k].tax_paid_year_to_date = rows[k].tax_paid_period

InstalmentTolerance(a) == a \div Scale + 1

ContributedInYearOf(k, nm) == ContributedInYear(nm, rows[k].year_number)

\* T: the progressive tax on the income of the year less the deduction of
\* the retirement contributions of the year.
SettlementT(k) ==
    compute_progressive_tax(
        Max2(0, Max2(0, MulR(rows[k].income_annual,
                             Scale - cfg.tax.standard_deduction_rate))
                - Min2(SumSet([nm \in PerNames |-> ContributedInYearOf(k, nm)],
                              PerNames),
                       rows[k].per_cap_for_year)),
        cfg.tax)

\* R: the credits of the fcpi products for the contributions of the year.
SettlementR(k) ==
    SumSet([nm \in FcpiNames |->
               MulR(Min2(ContributedInYearOf(k, nm),
                         Get(ProductNamed(nm).fcpi).annual_eligible_cap),
                    Get(ProductNamed(nm).fcpi).tax_reduction_rate)],
           FcpiNames)

\* C16: on the final row of each year tax_due_for_year = max(0, T - R) and
\* fcpi_tax_reduction_for_year = min(R, T), with T and R computed from the
\* contributions of that year alone; both are >= 0 and add up to T.
C16_YearEndSettlement ==
    \A k \in YearEndRows :
        /\ Get(rows[k].tax_due_for_year) = Max2(0, SettlementT(k) - SettlementR(k))
        /\ Get(rows[k].fcpi_tax_reduction_for_year)
              = Min2(SettlementR(k), SettlementT(k))
        /\ Get(rows[k].tax_due_for_year) >= 0
        /\ Get(rows[k].fcpi_tax_reduction_for_year) >= 0
        /\ Get(rows[k].tax_due_for_year) + Get(rows[k].fcpi_tax_reduction_for_year)
              = SettlementT(k)

C16_Witness ==
    \E k \in YearEndRows :
        /\ rows[k].year_index >= 1
        /\ SettlementR(k) > 0
        /\ SettlementT(k) > SettlementR(k)
        /\ \E nm \in FcpiNames :
              ContributedInYearOf(k, nm) > Get(ProductNamed(nm).fcpi).annual_eligible_cap
        /\ \E nm \in PerNames :
              /\ ContributedInYearOf(k, nm) > rows[k].per_cap_for_year
              /\ rows[k].per_cap_for_year > 0

\* The cash balance before the period of rows[k].
CashBefore(k) ==
    IF k = 1 THEN ProductNamed(cash_name).initial_value_eur
    ELSE rows[k - 1].value_by_product[cash_name]

\* The distributions of the period of row r that are routed to cash.
DividendsToCash(r) ==
    SumSet([nm \in ScpiNames |->
               IF Get(ProductNamed(nm).scpi).dividends_to_cash
               THEN r.dividends_by_product[nm] ELSE 0],
           ScpiNames)

\* C17: the cash balance changes in a period only by the income, the living
\* costs, the tax payment, the redemptions credited, the amounts allocated
\* to other products and the distributions routed to cash, whatever
\* annual_return the cash product carries.
C17_CashAccruesNoReturn ==
    \A k \in DOMAIN rows :
        rows[k].value_by_product[cash_name] =
            CashBefore(k) + rows[k].income_period - rows[k].living_costs_period
            - rows[k].tax_paid_period
            + SumValues(rows[k].redemptions_by_product)
            - SumValues(rows[k].contributions_by_product)
            + DividendsToCash(rows[k])

\* The share funds that reinvest their distributions and whose part price
\* does not appreciate.
ReinvestingNames ==
    { nm \in ScpiNames : /\ ~Get(ProductNamed(nm).scpi).dividends_to_cash
                         /\ Get(ProductNamed(nm).scpi).revaluation_annual = 0 }

\* The value of nm at the end of the period before rows[k].
ValueBefore(k, nm) ==
    IF k = 1 THEN InitialValue(ProductNamed(nm))
    ELSE rows[k - 1].value_by_product[nm]

\* C18: the value of a share fund that reinvests its distributions, at a
\* constant part price, never decreases from one row to the next and grows
\* by each distribution paid.
C18_ReinvestedDistributionsStay ==
    \A nm \in ReinvestingNames : \A k \in DOMAIN rows :
        rows[k].value_by_product[nm]
            >= ValueBefore(k, nm) + rows[k].dividends_by_product[nm]

\* The steps of the year at which the fund pays.
Occurrences == { k \in DOMAIN rows : rows[k].pays }

YearPlanned == i = PeriodsPerYear /\ pc = "plan"

\* C19: at every granularity and distribution frequency, the share counts
\* planned at the payment occurrences of a year add up to parts_per_year,
\* differ by at most 1 with the larger ones first, and are 0 at the other
\* steps.
C19_PlanSumsToTarget ==
    YearPlanned =>
        /\ SumSet([k \in DOMAIN rows |-> rows[k].planned], DOMAIN rows)
              = Get(products[1].scpi).parts_per_year
        /\ \A k \in DOMAIN rows : ~rows[k].pays => rows[k].planned = 0
        /\ \A j, k \in Occurrences :
              j < k => /\ rows[j].planned >= rows[k].planned
                       /\ rows[j].planned - rows[k].planned <= 1

\* C20: at every granularity and distribution frequency, each distribution
\* is annual yield x value divided by the number of payment occurrences of
\* the year, so that the distributions of a year add up to annual yield x
\* value.
C20_DistributionsSumToYield ==
    YearPlanned =>
        /\ SumSet([k \in DOMAIN rows |-> rows[k].dividend], DOMAIN rows)
              = MulR(InitialValue(products[1]),
                     Get(products[1].scpi).distribution_annual)
        /\ \A k \in Occurrences :
              rows[k].dividend * Cardinality(Occurrences)
                  = MulR(InitialValue(products[1]),
                         Get(products[1].scpi).distribution_annual)

----------------------------------------------------------------------------
(* Allocation order *)

PositionOf(nm) == CHOOSE k \in DOMAIN products : products[k].name = nm

\* The non-cash products that the allocation pass reaches before nm: those
\* of smaller priority number, and those of equal number listed earlier.
ServedBefore(nm) ==
    { other \in NonCashNames :
        \/ ProductNamed(other).priority < ProductNamed(nm).priority
        \/ /\ ProductNamed(other).priority = ProductNamed(nm).priority
           /\ PositionOf(other) < PositionOf(nm) }

SpentBefore(r, nm) == SumSet(r.contributions_by_product, ServedBefore(nm))

BudgetOfRow(r) ==
    Max2(0, r.cash_before_invest - cfg.budget.emergency_fund_target)

DesiredOfRow(r, nm) == Max2(0, Want(ProductNamed(nm), r))

C21_Row(r) ==
    \A nm \in NonCashNames \ ScpiNames :
        /\ r.contributions_by_product[nm]
              = Max2(0, Min3(DesiredOfRow(r, nm),
                             BudgetOfRow(r) - SpentBefore(r, nm),
                             r.cash_before_invest - SpentBefore(r, nm)))
        /\ r.contributions_by_product[nm] < DesiredOfRow(r, nm) =>
              \A later \in NonCashNames :
                  ProductNamed(later).priority > ProductNamed(nm).priority
                      => r.contributions_by_product[later] = 0

\* C21: in every period each non-share-fund product receives
\* min(desired, remaining budget, available cash), the products being served
\* in ascending priority number; a non-share-fund product that receives less
\* than it desired leaves nothing to any product of strictly larger priority
\* number.
C21_PriorityAllocation == \A k \in DOMAIN rows : C21_Row(rows[k])

\* A product was served in part, and a product of larger priority number
\* that wanted money got none.
C21_Witness ==
    \E k \in DOMAIN rows : \E nm \in NonCashNames \ ScpiNames :
        /\ rows[k].contributions_by_product[nm] > 0
        /\ rows[k].contributions_by_product[nm] < DesiredOfRow(rows[k], nm)
        /\ \E later \in NonCashNames \ ScpiNames :
              /\ ProductNamed(later).priority > ProductNamed(nm).priority
              /\ DesiredOfRow(rows[k], later) > 0
              /\ rows[k].contributions_by_product[later] = 0

----------------------------------------------------------------------------
(* Redemptions *)

\* The step of run that simulates period i: the only step that stays in
\* the loop.
PeriodTaken == pc = "loop" /\ pc' = "loop" /\ i' = i + 1

\* The lots of nm that are due at the period about to be simulated.
MaturedLots(nm) ==
    LET lots == DictGet(fcpi_lots, nm, << >>)
    IN  { k \in DOMAIN lots : i >= lots[k][1] }

MaturedPrincipal(nm) ==
    LET lots == DictGet(fcpi_lots, nm, << >>)
    IN  SumSet([k \in DOMAIN lots |-> lots[k][2]], MaturedLots(nm))

\* What the claim lets nm redeem in the period about to be simulated.
ClaimedRedemption(nm) ==
    IF ~IsFcpi(ProductNamed(nm)) \/ MaturedLots(nm) = {} THEN 0
    ELSE IF Get(ProductNamed(nm).fcpi).exit_mode = "full_value"
         THEN Max2(0, value[nm])
         ELSE Max2(0, Min2(MaturedPrincipal(nm), value[nm]))

\* The maturity step of the period about to be simulated, between the state
\* after the cash flows (f) and the state before the allocation (mat), and
\* the row the period emits (r).
C22_Maturity(f, mat, r) ==
    /\ \A nm \in Names(products) :
          /\ r.redemptions_by_product[nm] = ClaimedRedemption(nm)
          /\ mat.redemptions[nm] = ClaimedRedemption(nm)
          /\ mat.invested[nm] = Max2(0, invested[nm] - ClaimedRedemption(nm))
          /\ invested[nm] >= 0 => mat.invested[nm] >= 0
          /\ nm # cash_name =>
                /\ mat.value[nm] = f.value[nm] - ClaimedRedemption(nm)
                /\ f.value[nm] >= 0 => mat.value[nm] >= 0
          /\ ~IsFcpi(ProductNamed(nm)) => r.redemptions_by_product[nm] = 0
    /\ mat.value[cash_name]
          = f.value[cash_name] + SumValues(r.redemptions_by_product)
    /\ r.cash_before_invest = mat.value[cash_name]

\* C22: the lots due in a period redeem min(principal, product value) under
\* the principal policy and the whole product value under full_value; the
\* amount leaves the product's value, is credited to cash and is recorded in
\* the row's redemptions_by_product; the cost basis is reduced by it and
\* floored at zero; no value or cost basis turns negative through it, and a
\* product that is not fcpi never records a redemption.
C22_RedemptionAtMaturity ==
    [][PeriodTaken => \A f \in {Flow} : \A mat \in {Mature(f)} :
                          C22_Maturity(f, mat, rows'[Len(rows')])]_vars

\* Both exit policies have paid out, the full_value one more than the
\* product's cost basis.
C22_Witness ==
    /\ pc = "loop"
    /\ \E k \in DOMAIN rows : \E nm \in FcpiNames :
          /\ Get(ProductNamed(nm).fcpi).exit_mode = "principal"
          /\ rows[k].redemptions_by_product[nm] > 0
    /\ \E nm \in FcpiNames :
          /\ Get(ProductNamed(nm).fcpi).exit_mode = "full_value"
          /\ rows[Len(rows)].redemptions_by_product[nm] > 0
          /\ invested[nm] = rows[Len(rows)].contributions_by_product[nm]

\* The principals of the lots of nm still open in the dict lots.
OpenPrincipal(lots, nm) ==
    LET open == DictGet(lots, nm, << >>)
    IN  SumSet([k \in DOMAIN open |-> open[k][2]], DOMAIN open)

C23_Locked(mat) ==
    \A nm \in FcpiNames :
        ProductNamed(nm).annual_return >= 0 =>
            mat.value[nm] >= OpenPrincipal(mat.fcpi_lots, nm)

\* C23: right after the maturity step of every period, the value of an fcpi
\* product of non-negative return is at least the sum of the principals of
\* its lots that are still open, under both exit policies: no redemption
\* pays out principal of a lot that matures later.
C23_CapitalLockedUntilMaturity ==
    [][PeriodTaken => \A mat \in {Mature(Flow)} : C23_Locked(mat)]_vars

----------------------------------------------------------------------------
(* Cash ledger *)

C24_Row(k) ==
    LET r == rows[k]
    IN  /\ r.cash_before_invest
              = CashBefore(k) + r.income_period - r.living_costs_period
                - r.tax_paid_period + SumValues(r.redemptions_by_product)
        /\ r.cash_after_invest
              = r.cash_before_invest - SumValues(r.contributions_by_product)

\* C24: cash_before_invest of every period is the cash value at the end of
\* the period before (the initial cash value for the first period) plus the
\* income, minus the living costs and the tax payment, plus the redemptions
\* of the period, which are therefore available to the allocation pass;
\* cash_after_invest is cash_before_invest minus the contributions, without
\* the distributions routed to cash in that period.
C24_CashLedgerOrder == \A k \in DOMAIN rows : C24_Row(k)

\* Money redeemed in a period was invested in the same period, beyond what
\* the budget allowed without it, and a distribution reached cash in a
\* period after the first.
C24_Witness ==
    /\ \E k \in DOMAIN rows :
          /\ k >= 2
          /\ SumValues(rows[k].redemptions_by_product) > 0
          /\ SumValues(rows[k].contributions_by_product)
                > Max2(0, rows[k].cash_before_invest
                          - SumValues(rows[k].redemptions_by_product)
                          - cfg.budget.emergency_fund_target)
    /\ \E k \in DOMAIN rows : k >= 2 /\ DividendsToCash(rows[k]) > 0

----------------------------------------------------------------------------
(* Conservation *)

AllRatesZero ==
    \A k \in DOMAIN products :
        /\ products[k].annual_return = 0
        /\ ~IsNone(products[k].scpi) =>
              /\ Get(products[k].scpi).distribution_annual = 0
              /\ Get(products[k].scpi).revaluation_annual = 0

\* C25: when every return rate, distribution yield and share-price
\* appreciation is zero, total_value of every period after the first is
\* total_value of the period before plus the income, minus the living costs
\* and the tax payment: allocations, share purchases and redemptions move
\* value between products without creating or destroying any.
C25_TransfersConserveWealth ==
    AllRatesZero =>
        \A k \in DOMAIN rows :
            k >= 2 =>
                rows[k].total_value
                    = rows[k - 1].total_value + rows[k].income_period
                      - rows[k].living_costs_period - rows[k].tax_paid_period

\* A run at zero rates in which, after the first period, money was
\* allocated, parts were bought and a lot was redeemed.
C25_Witness ==
    /\ AllRatesZero
    /\ \E k \in DOMAIN rows : \E nm \in NonCashNames \ ScpiNames :
          k >= 2 /\ rows[k].contributions_by_product[nm] > 0
    /\ \E k \in DOMAIN rows : \E nm \in ScpiNames :
          k >= 2 /\ rows[k].scpi_parts_by_product[nm] > PartsBefore(k, nm)
    /\ \E k \in DOMAIN rows :
          k >= 2 /\ SumValues(rows[k].redemptions_by_product) > 0

----------------------------------------------------------------------------
(* Retirement cap *)

\* The income of the year before the year of rows[k].
PriorYearIncome(k) ==
    IF rows[k].year_index = 0
    THEN IF IsNone(cfg.income.gross_annual_previous) THEN rows[k].income_annual
         ELSE Get(cfg.income.gross_annual_previous)
    ELSE LET j == CHOOSE j \in DOMAIN rows :
                      rows[j].year_index = rows[k].year_index - 1
         IN  rows[j].income_annual

\* max(0, max(floor, min(ceiling, income x rate))), no ceiling when absent
ClaimedCap(income_prev, per_cap) ==
    LET x == MulR(income_prev, per_cap.rate_of_income_prev_year)
        limited == IF IsNone(per_cap.annual_max) THEN x
                   ELSE Min2(Get(per_cap.annual_max), x)
    IN  Max2(0, Max2(per_cap.annual_min, limited))

\* C26: per_cap_for_year of every row is
\* max(0, max(floor, min(ceiling, priorYearIncome x capRate))), the ceiling
\* being +infinity when absent, for the income of the year before the row's
\* year (the configured pre-simulation income for the first year, the first
\* year's income when none is configured), whatever the floor, the ceiling,
\* the income and the rate.
C26_PerCapFormula ==
    \A k \in DOMAIN rows :
        rows[k].per_cap_for_year = ClaimedCap(PriorYearIncome(k), cfg.per_cap)

----------------------------------------------------------------------------
(* Progressive tax *)

UpperBefore(brackets, k) == IF k = 1 THEN 0 ELSE Get(brackets[k - 1].up_to)

\* rate_k x max(0, min(x, upper_k) - upper_(k-1)), the last upper bound
\* being +infinity
BandTax(brackets, k, x) ==
    LET reach == IF IsNone(brackets[k].up_to) THEN x
                 ELSE Min2(x, Get(brackets[k].up_to))
    IN  MulR(Max2(0, reach - UpperBefore(brackets, k)), brackets[k].rate)

BandSum(brackets, x) ==
    SumSet([k \in DOMAIN brackets |-> BandTax(brackets, k, x)], DOMAIN brackets)

AllRatesNonNegative ==
    \A k \in DOMAIN cfg.tax.brackets : cfg.tax.brackets[k].rate >= 0

TaxNeverNegativeAndMonotone ==
    /\ \A k \in DOMAIN rows : rows[k].taxable <= 0 => rows[k].tax = 0
    /\ \A k \in DOMAIN rows : rows[k].tax >= 0
    /\ AllRatesNonNegative =>
          \A j, k \in DOMAIN rows :
              rows[j].taxable <= rows[k].taxable => rows[j].tax <= rows[k].tax

\* C27 as stated: for a split factor s >= 1 and ascending brackets ending
\* with an unbounded one, the tax of T > 0 is s x the sum over the brackets
\* of rate_k x max(0, min(T/s, upper_k) - upper_(k-1)); it is 0 for T <= 0,
\* never negative, and non-decreasing in T when no rate is negative.
C27_TaxIsBandSum ==
    /\ \A k \in DOMAIN rows :
          rows[k].taxable > 0 =>
              rows[k].tax
                  = MulR(BandSum(cfg.tax.brackets,
                                 DivR(rows[k].taxable, cfg.tax.household_parts)),
                         cfg.tax.household_parts)
    /\ TaxNeverNegativeAndMonotone

\* C27, amended: the tax of T > 0 is s x max(0, the sum over the brackets
\* of rate_k x max(0, min(T/s, upper_k) - upper_(k-1))); it is 0 for
\* T <= 0, never negative, and non-decreasing in T when no rate is negative.
C27_TaxIsFlooredBandSum ==
    /\ \A k \in DOMAIN rows :
          rows[k].taxable > 0 =>
              rows[k].tax
                  = MulR(Max2(0, BandSum(cfg.tax.brackets,
                                         DivR(rows[k].taxable,
                                              cfg.tax.household_parts))),
                         cfg.tax.household_parts)
    /\ TaxNeverNegativeAndMonotone

\* A household split above 1 under a table of several brackets: no tax on
\* an amount that is not positive, tax on an amount in the last bracket;
\* and a table whose band sum is negative.
C27_Witness ==
    /\ Len(cfg.tax.brackets) >= 2
    /\ \E k \in DOMAIN rows :
          /\ rows[k].taxable > 0
          /\ BandSum(cfg.tax.brackets,
                     DivR(rows[k].taxable, cfg.tax.household_parts)) < 0
          /\ rows[k].tax = 0
    /\ \E k \in DOMAIN rows : rows[k].taxable < 0 /\ rows[k].tax = 0
    /\ cfg.tax.household_parts > Scale
    /\ \E k \in DOMAIN rows :
          /\ rows[k].tax > 0
          /\ DivR(rows[k].taxable, cfg.tax.household_parts)
                > UpperBefore(cfg.tax.brackets, Len(cfg.tax.brackets))

----------------------------------------------------------------------------
(* Payment steps *)

PayingSteps == { rows[k].step_in_year : k \in Occurrences }

PaymentsInYear ==
    Min2(PeriodsPerYear, payments_per_year(Get(products[1].scpi).dividend_frequency))

\* The last step of each of the PaymentsInYear equal intervals of the year.
IntervalEnds ==
    { (j + 1) * (PeriodsPerYear \div PaymentsInYear) - 1 :
        j \in 0..(PaymentsInYear - 1) }

C28_Examples ==
    LET freq == Get(products[1].scpi).dividend_frequency
    IN  /\ (cfg.period = "quarterly" /\ freq = "semiannual") =>
              PayingSteps = {1, 3}
        /\ (cfg.period = "monthly" /\ freq = "quarterly") =>
              PayingSteps = {2, 5, 8, 11}
        /\ (cfg.period = "monthly" /\ freq = "semiannual") =>
              PayingSteps = {5, 11}
        /\ freq = "yearly" => PayingSteps = {PeriodsPerYear - 1}
        /\ payments_per_year(freq) >= PeriodsPerYear =>
              PayingSteps = 0..(PeriodsPerYear - 1)

\* C28: at every granularity and payment frequency, the steps of a year at
\* which should_pay_dividend answers true are the last steps of the
\* min(periodsPerYear, paymentsPerYear) equal payment intervals of the year,
\* the final step of the year among them, with the listed cases as stated.
C28_PaymentSteps ==
    YearPlanned =>
        /\ PayingSteps = IntervalEnds
        /\ Cardinality(PayingSteps) = PaymentsInYear
        /\ PeriodsPerYear - 1 \in PayingSteps
        /\ C28_Examples

\* A year of monthly periods with quarterly payments has been walked
\* through.
C28_Witness ==
    /\ YearPlanned
    /\ cfg.period = "monthly"
    /\ Get(products[1].scpi).dividend_frequency = "quarterly"
    /\ PayingSteps = {2, 5, 8, 11}

----------------------------------------------------------------------------
(* Integer distribution *)

\* parts has n entries that add up to sum, differ by at most 1 and have
\* the larger ones first: the first sum mod n entries carry the extra unit.
EvenSplit(parts, n, sum) ==
    /\ Len(parts) = n
    /\ SumSet(parts, DOMAIN parts) = sum
    /\ \A j, k \in DOMAIN parts :
          /\ parts[j] - parts[k] <= 1
          /\ j <= k => parts[j] >= parts[k]
    /\ \A k \in DOMAIN parts :
          parts[k] = (sum \div n) + (IF k <= sum % n THEN 1 ELSE 0)

----------------------------------------------------------------------------
(* The enforcement flag *)

FlagSwitched ==
    /\ history # << >>
    /\ "cfg" \in DOMAIN history[1]
    /\ history[1].cfg
          = [cfg EXCEPT !.budget.enforce_emergency_fund_first = ~@]

\* C30: the run with enforce_emergency_fund_first true and the run with it
\* false, on the same configuration otherwise and the same product list,
\* return the same rows (or both raise the same error).
C30_FlagIrrelevant ==
    (pc \in {"returned", "raised"} /\ FlagSwitched) =>
        /\ Get(result) = history[1].result
        /\ pc = "returned" => Get(result).rows = EarlierRows

\* Both runs returned; cash was below the floor in one period and money was
\* invested in another.
C30_Witness ==
    /\ pc = "returned"
    /\ FlagSwitched
    /\ \E k \in DOMAIN rows :
          rows[k].cash_before_invest < cfg.budget.emergency_fund_target
    /\ \E k \in DOMAIN rows :
          SumValues(rows[k].contributions_by_product) > 0

====
